---- MODULE Spec2Model ----
(***************************************************************************)
(* A model of app.py: the cached leaf reads (get_sdai_rate, get_sdai_apy,  *)
(* get_fx_rates, get_pool_price, get_bot_balance), the two cached          *)
(* orchestrators (fetch_pool_data, fetch_bot_data) and the fragments that  *)
(* call them.                                                              *)
(*                                                                         *)
(* Numbers.  Python floats are kept as exact rationals <<n, d>> in lowest  *)
(* terms with d > 0; None is <<0, 0>>.  A chain integer that the code      *)
(* divides by a fixed scale (sqrtPriceX96 by 2**96, wei by 10**18) is kept *)
(* as the rational that the division yields.                               *)
(*                                                                         *)
(* Time.  st.cache_data(ttl=T) serves an entry while now - created < T.    *)
(* An entry keeps its age (now - created) instead of its creation time;    *)
(* Tick adds the elapsed seconds to every age and drops the entries whose  *)
(* age reached the ttl, which no read can see again.                       *)
(***************************************************************************)
EXTENDS Integers, Sequences, FiniteSets, TLC

VARIABLES
    cache,   \* function and argument tuple -> entry of st.cache_data
    lock,    \* orchestrator key -> the session computing its value, or 0
    sess,    \* session -> where its script thread is
    target,  \* the cached function that the script runs of this run call
    ev       \* what the last step did

vars == <<cache, lock, sess, target, ev>>

-----------------------------------------------------------------------------
(* Rationals *)

None == <<0, 0>>

RECURSIVE Gcd(_, _)
Gcd(a, b) == IF b = 0 THEN a ELSE Gcd(b, a % b)

Abs(x) == IF x < 0 THEN -x ELSE x

Rat(n, d) ==
    LET g == Gcd(Abs(n), Abs(d))
        s == IF d < 0 THEN -1 ELSE 1
    IN <<(s * n) \div g, (s * d) \div g>>

IsNum(v) == v[2] > 0

\* Python truthiness of None or a float: None and 0.0 are false.
Truthy(v) == IsNum(v) /\ v[1] # 0

RMul(x, y) == Rat(x[1] * y[1], x[2] * y[2])
RDiv(x, y) == Rat(x[1] * y[2], x[2] * y[1])
RSub(x, y) == Rat(x[1] * y[2] - y[1] * x[2], x[2] * y[2])
RAbs(x) == <<Abs(x[1]), x[2]>>
RLt(x, y) == x[1] * y[2] < y[1] * x[2]
RInt(n) == <<n, 1>>

RECURSIVE Pow10(_)
Pow10(k) == IF k = 0 THEN 1 ELSE 10 * Pow10(k - 1)

\* 10 ** k for an int k: an int for k >= 0, the float 1 / 10**(-k) otherwise.
RPow10(k) == IF k >= 0 THEN <<Pow10(k), 1>> ELSE <<1, Pow10(-k)>>

\* f"{x:.kf}": x rounded to k decimals (ties to even), as the signed count
\* of units of 10**-k that the digits spell.
Fmt(x, k) ==
    LET n == Abs(x[1]) * Pow10(k)
        q == n \div x[2]
        r == n % x[2]
        m == IF 2 * r > x[2] \/ (2 * r = x[2] /\ q % 2 = 1) THEN q + 1 ELSE q
    IN IF x[1] < 0 THEN -m ELSE m

-----------------------------------------------------------------------------
(* Configuration *)

BOTS == <<
    [address |-> "0x90463d5c5B7384b630FfEAF759ab91811457CBAb", name |-> "BRIDGE BOT", chain |-> "mainnet"],
    [address |-> "0xFA0951092B227b0103062D3EDDFC2FCcB13e9C1D", name |-> "TEMP BOT", chain |-> "mainnet"] >>

POOLS == <<
    [address |-> "0x576bf065cbc15cb2d61affb156118fcff01a8238", pair |-> "USDC.E/BRLA", fx_pair |-> "USD/BRL"],
    [address |-> "0x1bb53efa5523c80b598b561e266dfdc938f80e4f", pair |-> "EURE/ZCHF", fx_pair |-> "EUR/CHF"],
    [address |-> "0x9fc285501a38d734e7b42147445d303cf8f7946b", pair |-> "BRZ/USDC.E", fx_pair |-> "BRL/USD"],
    [address |-> "0x22eb73322b6334ccf07fc2f9f22690a012d22797", pair |-> "GBPE/SDAI", fx_pair |-> "GBP/USD",
     sdai_adjust |-> TRUE] >>

\* f"{address[:8]}..{address[-4:]}" of the configured addresses.
ShortAddr(a) ==
    CASE a = "0x576bf065cbc15cb2d61affb156118fcff01a8238" -> "0x576bf0..8238"
      [] a = "0x1bb53efa5523c80b598b561e266dfdc938f80e4f" -> "0x1bb53e..0e4f"
      [] a = "0x9fc285501a38d734e7b42147445d303cf8f7946b" -> "0x9fc285..946b"
      [] a = "0x22eb73322b6334ccf07fc2f9f22690a012d22797" -> "0x22eb73..2797"
      [] a = "0x90463d5c5B7384b630FfEAF759ab91811457CBAb" -> "0x90463d..CBAb"
      [] a = "0xFA0951092B227b0103062D3EDDFC2FCcB13e9C1D" -> "0xFA0951..9C1D"

\* dict.get(key): the value, or None when the key is missing.
DictGet(d, k) == IF k \in DOMAIN d THEN d[k] ELSE None

\* pool.get("sdai_adjust"), as a truth value.
SdaiAdjust(pool) == "sdai_adjust" \in DOMAIN pool /\ pool.sdai_adjust

-----------------------------------------------------------------------------
(* The bodies of the leaf reads, as functions of what the network answers *)

EmptyDict == [k \in {} |-> None]

DictSet(d, k, v) == [x \in DOMAIN d \cup {k} |-> IF x = k THEN v ELSE d[x]]

\* Faulty variant: the fallback of get_sdai_apy, 0.0, in get_sdai_rate.
SdaiRateOfZero(ans) == IF ans.ok THEN ans.assets ELSE RInt(0)

\* get_sdai_rate: assets / 10**18, or 1.0 when the call raised.
SdaiRateOf(ans) == IF ans.ok THEN ans.assets ELSE RInt(1)

\* get_sdai_apy: apy_wei / 10**18 * 100, or 0.0 when the call raised.
SdaiApyOf(ans) == IF ans.ok THEN RMul(ans.apy, RInt(100)) ELSE RInt(0)

\* Faulty variant: the quotient the other way round.
CrossRateInverted(usd_chf, usd_eur) == RDiv(usd_eur, usd_chf)

\* rates["USD/CHF"] / rates["USD/EUR"]
CrossRate(usd_chf, usd_eur) == RDiv(usd_chf, usd_eur)

\* 1 / rates[...]
Reciprocal(r) == RDiv(RInt(1), r)

\* get_fx_rates.  resp.kind is "raise" (requests.get raised), "status" (a
\* status other than 200) or "ok" (200, with the body's "rates" mapping).
FxRatesOf(resp) ==
    IF resp.kind # "ok" THEN EmptyDict
    ELSE
      LET usd == resp.rates
          r1 == DictSet(EmptyDict, "USD/BRL", DictGet(usd, "BRL"))
          r2 == DictSet(r1, "USD/CHF", DictGet(usd, "CHF"))
          r3 == DictSet(r2, "USD/EUR", DictGet(usd, "EUR"))
          r4 == DictSet(r3, "USD/GBP", DictGet(usd, "GBP"))
          r5 == IF Truthy(DictGet(r4, "USD/BRL"))
                THEN DictSet(r4, "BRL/USD", Reciprocal(r4["USD/BRL"])) ELSE r4
          r6 == IF Truthy(DictGet(r5, "USD/CHF")) /\ Truthy(DictGet(r5, "USD/EUR"))
                THEN DictSet(r5, "EUR/CHF", CrossRate(r5["USD/CHF"], r5["USD/EUR"])) ELSE r5
          r7 == IF Truthy(DictGet(r6, "USD/GBP"))
                THEN DictSet(r6, "GBP/USD", Reciprocal(r6["USD/GBP"])) ELSE r6
      IN r7

\* get_pool_price: (sqrt_price_x96 / 2**96) ** 2 * 10 ** (decimals0 - decimals1).
\* ans.sqrt is sqrt_price_x96 / 2**96.
DecodePrice(sqrt, decimals0, decimals1) ==
    RMul(RMul(sqrt, sqrt), RPow10(decimals0 - decimals1))

PoolPriceOf(ans) ==
    IF ans.ok
    THEN [price |-> DecodePrice(ans.sqrt, ans.decimals0, ans.decimals1), success |-> TRUE]
    ELSE [success |-> FALSE, error |-> ans.error]

\* get_bot_balance: balance_wei / 10**18.
BotBalanceOf(ans) ==
    IF ans.ok
    THEN [balance |-> ans.eth, success |-> TRUE]
    ELSE [success |-> FALSE, error |-> ans.error]

-----------------------------------------------------------------------------
(* One row of fetch_pool_data and of fetch_bot_data *)

Dash == [text |-> "-"]
Err == [text |-> "ERR"]

DevPct(pool_price, fx_rate) == RMul(RDiv(RSub(pool_price, fx_rate), fx_rate), RInt(100))

\* Faulty variant: the thresholds included.
DevClassInclusive(dev) ==
    IF ~RLt(<<1, 2>>, RAbs(dev)) THEN "positive"
    ELSE IF ~RLt(RAbs(dev), RInt(2)) THEN "negative"
    ELSE "neutral"

DevClass(dev) ==
    IF RLt(RAbs(dev), <<1, 2>>) THEN "positive"
    ELSE IF RLt(RInt(2), RAbs(dev)) THEN "negative"
    ELSE "neutral"

\* Faulty variant: a missing rate taken for a number.
HasDevAnyRate(fx_rate, pool_price) == RLt(RInt(0), pool_price)

\* fx_rate and pool_price > 0
HasDev(fx_rate, pool_price) == Truthy(fx_rate) /\ RLt(RInt(0), pool_price)

DevStr(fx_rate, pool_price) ==
    IF HasDev(fx_rate, pool_price)
    THEN LET dev == DevPct(pool_price, fx_rate)
         IN [class |-> DevClass(dev), sign |-> IF dev[1] < 0 THEN "-" ELSE "+",
             pct2 |-> Fmt(RAbs(dev), 2)]
    ELSE Dash

\* x / y raises for y = 0 (ZeroDivisionError) and for y = None (TypeError).
DivRaises(y) == ~IsNum(y) \/ y[1] = 0

AdjustedPrice(pool, price, sdai_rate) ==
    IF SdaiAdjust(pool) THEN RMul(price, sdai_rate) ELSE price

PoolRow(pool, data, fx_rates, sdai_rate) ==
    IF data.success
    THEN LET pool_price == AdjustedPrice(pool, data.price, sdai_rate)
             fx_rate == DictGet(fx_rates, pool.fx_pair)
         IN [pair |-> pool.pair,
             addr |-> ShortAddr(pool.address),
             full_addr |-> pool.address,
             price |-> [fmt4 |-> Fmt(pool_price, 4)],
             fx_pair |-> pool.fx_pair,
             fx_rate |-> IF Truthy(fx_rate) THEN [fmt4 |-> Fmt(fx_rate, 4)] ELSE Dash,
             dev |-> DevStr(fx_rate, pool_price)]
    ELSE [pair |-> pool.pair,
          addr |-> ShortAddr(pool.address),
          full_addr |-> pool.address,
          price |-> Err,
          fx_pair |-> pool.fx_pair,
          fx_rate |-> Dash,
          dev |-> Dash]

\* Whether building the row raises: data["price"] on a result without the key,
\* or the division by fx_rate.
PoolRowRaises(pool, data, fx_rates, sdai_rate) ==
    /\ data.success
    /\ \/ "price" \notin DOMAIN data
       \/ LET pool_price == AdjustedPrice(pool, data.price, sdai_rate)
              fx_rate == DictGet(fx_rates, pool.fx_pair)
          IN HasDev(fx_rate, pool_price) /\ DivRaises(fx_rate)

BotRowRaises(bot, data) == data.success /\ "balance" \notin DOMAIN data

BotRow(bot, data) ==
    [name |-> bot.name,
     address |-> bot.address,
     addr_short |-> ShortAddr(bot.address),
     chain |-> bot.chain,
     balance |-> IF data.success THEN [fmt4 |-> Fmt(data.balance, 4)] ELSE Err,
     explorer |-> IF bot.chain = "mainnet" THEN "https://etherscan.io" ELSE "https://gnosisscan.io"]

-----------------------------------------------------------------------------
(* The cache of st.cache_data: one entry per function and argument tuple *)

KSdaiRate == <<"get_sdai_rate", <<>>>>
KSdaiApy == <<"get_sdai_apy", <<>>>>
KFx == <<"get_fx_rates", <<>>>>
KPool(i) == <<"get_pool_price", <<POOLS[i].address>>>>
KBot(j) == <<"get_bot_balance", <<BOTS[j].address, BOTS[j].chain>>>>
KPoolData == <<"fetch_pool_data", <<>>>>
KBotData == <<"fetch_bot_data", <<>>>>

PoolKeys == {KPool(i) : i \in 1..Len(POOLS)}
BotKeys == {KBot(j) : j \in 1..Len(BOTS)}
OrchKeys == {KPoolData, KBotData}
LeafKeys == {KSdaiRate, KSdaiApy, KFx} \cup PoolKeys \cup BotKeys
Keys == LeafKeys \cup OrchKeys

\* The fragments live_pool_table, live_bot_table and live_sdai_apy call these.
FragmentKeys == {KPoolData, KBotData, KSdaiApy}

\* Faulty variant: every function cached for 300 s.
TTLAll300(k) == 300

\* Faulty variant: fetch_pool_data cached for 300 s.
TTLOrch300(k) == IF k[1] = "fetch_pool_data" THEN 300 ELSE IF k[1] \in {"get_fx_rates", "get_sdai_apy"} THEN 300 ELSE 60

\* The ttl argument of each function's st.cache_data decorator.
TTL(k) ==
    CASE k[1] = "get_sdai_rate" -> 60
      [] k[1] = "get_sdai_apy" -> 300
      [] k[1] = "get_fx_rates" -> 300
      [] k[1] = "get_pool_price" -> 60
      [] k[1] = "get_bot_balance" -> 60
      [] k[1] = "fetch_pool_data" -> 60
      [] k[1] = "fetch_bot_data" -> 60

NoEntry == [has |-> FALSE]

\* An entry is served while its age is below the function's ttl.
Live(e, k) == e.has /\ e.age < TTL(k)

AgeOf(e) == IF e.has THEN e.age ELSE -1

\* The cached calls that the body of an orchestrator makes, in order.
LeafCalls(top) ==
    IF top = KPoolData
    THEN <<KFx, KSdaiRate>> \o [i \in 1..Len(POOLS) |-> KPool(i)]
    ELSE [j \in 1..Len(BOTS) |-> KBot(j)]

\* The value the body of leaf k returns for the network's answer.
LeafValue(k, ans) ==
    CASE k[1] = "get_sdai_rate" -> SdaiRateOf(ans)
      [] k[1] = "get_sdai_apy" -> SdaiApyOf(ans)
      [] k[1] = "get_fx_rates" -> FxRatesOf(ans)
      [] k[1] = "get_pool_price" -> PoolPriceOf(ans)
      [] k[1] = "get_bot_balance" -> BotBalanceOf(ans)

\* Faulty variant: a failure result is not written.
StoredOnlySuccess(k, val) ==
    IF k[1] \in {"get_pool_price", "get_bot_balance"} THEN val.success ELSE TRUE

\* Whether the result of a leaf's body is written to the cache: always.
Stored(k, val) == TRUE

-----------------------------------------------------------------------------
(* Sessions: one script thread each *)

IdleSess ==
    [pc |-> "idle", top |-> <<"", <<>>>>, idx |-> 0,
     fx_rates |-> EmptyDict, sdai_rate |-> None, rows |-> <<>>,
     reqs |-> <<>>, got |-> <<>>, stale |-> <<>>]

\* The key of the cached call session record ss is in.
CurKey(ss) == IF ss.pc = "lock" THEN ss.top ELSE LeafCalls(ss.top)[ss.idx]

\* Faulty variant: the loop ends at the first item that failed.
NextIdxBreak(ss, k, val) ==
    IF k \in PoolKeys \cup BotKeys /\ ~val.success
    THEN Len(LeafCalls(ss.top)) + 1 ELSE ss.idx + 1

\* Faulty variant: an item that failed is asked for again.
NextIdxRetry(ss, k, val) ==
    IF k \in PoolKeys \cup BotKeys /\ ~val.success THEN ss.idx ELSE ss.idx + 1

\* The statement after the one that consumed val: the next of the body, the
\* next item of the for loop.
NextIdx(ss, k, val) == ss.idx + 1

\* The loop of fetch_pool_data / fetch_bot_data takes what the cached call of
\* leaf k returned (res.val, from an entry of age res.age), and moves on.
Consume(ss, k, res) ==
    LET base == [ss EXCEPT !.pc = "body", !.idx = NextIdx(ss, k, res.val),
                           !.got = Append(ss.got, res),
                           !.stale = Append(ss.stale, [req_age |-> res.age, elapsed |-> 0])]
        val == res.val
    IN CASE k = KFx -> [base EXCEPT !.fx_rates = val]
         [] k = KSdaiRate -> [base EXCEPT !.sdai_rate = val]
         [] k \in PoolKeys ->
              LET pool == POOLS[ss.idx - 2] IN
              IF PoolRowRaises(pool, val, ss.fx_rates, ss.sdai_rate)
              THEN [IdleSess EXCEPT !.pc = "raised"]
              ELSE [base EXCEPT !.rows = Append(ss.rows, PoolRow(pool, val, ss.fx_rates, ss.sdai_rate))]
         [] k \in BotKeys ->
              LET bot == BOTS[ss.idx] IN
              IF BotRowRaises(bot, val)
              THEN [IdleSess EXCEPT !.pc = "raised"]
              ELSE [base EXCEPT !.rows = Append(ss.rows, BotRow(bot, val))]

\* A cached call of k returned res to session record ss.
Returned(ss, k, res) == IF ss.top = k THEN IdleSess ELSE Consume(ss, k, res)

\* The lock an uncaught exception of the body releases.
Unlocked(lk, top, raised) == IF raised THEN [lk EXCEPT ![top] = 0] ELSE lk

-----------------------------------------------------------------------------
(* What the network may answer.  A domain dom gives the answers explored   *)
(* for each kind of leaf.                                                  *)

Answers(k, dom) ==
    CASE k[1] = "get_sdai_rate" -> dom.sdai
      [] k[1] = "get_sdai_apy" -> dom.apy
      [] k[1] = "get_fx_rates" -> dom.fx
      [] k[1] = "get_pool_price" -> dom.pool
      [] k[1] = "get_bot_balance" -> dom.bot

Failed == [ok |-> FALSE, error |-> "timeout"]

FxOk(brl, chf, eur, gbp) ==
    [kind |-> "ok", rates |-> [c \in {"BRL", "CHF", "EUR", "GBP"} |->
        CASE c = "BRL" -> brl [] c = "CHF" -> chf [] c = "EUR" -> eur [] c = "GBP" -> gbp]]

PoolOk(sqrt, d0, d1) == [ok |-> TRUE, sqrt |-> sqrt, decimals0 |-> d0, decimals1 |-> d1]

\* The answers for the properties of values: rates that put a price of 1 exactly on
\* and around the 0.5% and 2% thresholds, missing and zero rates.
ValueDom ==
    [fx |-> {[kind |-> "raise"], [kind |-> "status"]} \cup
            {FxOk(brl, chf, eur, gbp) :
                brl \in {None, RInt(0), RInt(5), <<200, 201>>, <<199, 200>>},
                chf \in {None, RInt(0), <<19, 20>>},
                eur \in {None, <<9, 10>>, RInt(1)},
                gbp \in {None, <<4, 5>>, RInt(1)}},
     sdai |-> {[ok |-> FALSE], [ok |-> TRUE, assets |-> <<51, 50>>],
               [ok |-> TRUE, assets |-> <<101, 100>>]},
     apy |-> {[ok |-> FALSE], [ok |-> TRUE, apy |-> <<1, 20>>]},
     pool |-> {Failed, PoolOk(RInt(0), 18, 18), PoolOk(RInt(1), 18, 18), PoolOk(RInt(1), 6, 7)},
     bot |-> {Failed, [ok |-> TRUE, eth |-> <<3, 2>>], [ok |-> TRUE, eth |-> <<12346, 100000>>]}]

\* The answers for the properties of timing: each leaf fails or succeeds.
TimeDom ==
    [fx |-> {[kind |-> "raise"], FxOk(RInt(5), <<19, 20>>, <<9, 10>>, <<4, 5>>)},
     sdai |-> {[ok |-> FALSE], [ok |-> TRUE, assets |-> <<21, 20>>]},
     apy |-> {[ok |-> FALSE], [ok |-> TRUE, apy |-> <<1, 20>>]},
     pool |-> {Failed, PoolOk(RInt(1), 18, 18)},
     bot |-> {Failed, [ok |-> TRUE, eth |-> <<3, 2>>]}]

\* The answers for the properties of passes in time: the FX service and the vault
\* answer, each pool and account fails or succeeds.
PassDom ==
    [fx |-> {FxOk(RInt(5), <<19, 20>>, <<9, 10>>, <<4, 5>>)},
     sdai |-> {[ok |-> TRUE, assets |-> <<21, 20>>]},
     apy |-> {[ok |-> TRUE, apy |-> <<1, 20>>]},
     pool |-> {Failed, PoolOk(RInt(1), 18, 18)},
     bot |-> {Failed, [ok |-> TRUE, eth |-> <<3, 2>>]}]

\* Seconds a Tick lets pass, the cap of the elapsed time a pass records, and
\* the number of sessions.
TickStep == 30
ElapsedCap == 120
NSessions == 2

Sessions == 1..NSessions

Min(a, b) == IF a < b THEN a ELSE b

-----------------------------------------------------------------------------
(* The state machine *)

\* A fresh process whose script runs call function k.
InitFor(k) ==
    /\ cache = [x \in Keys |-> NoEntry]
    /\ lock = [x \in OrchKeys |-> 0]
    /\ sess = [s \in Sessions |-> IdleSess]
    /\ target = k
    /\ ev = [kind |-> "init"]

CacheWrite(c, k, val) == [c EXCEPT ![k] = [has |-> TRUE, val |-> val, age |-> 0]]

\* Faulty variant: no compute lock.
LockFreeAlways(lk, top) == TRUE

\* Whether a thread may take the compute lock of orchestrator key top.
LockFree(lk, top) == lk[top] = 0

\* What a read that found entry e returns to the caller.
FromCache(e) == [val |-> e.val, age |-> e.age, fresh |-> FALSE]

\* A script run calls the cached function: the read without the lock.
CallTop(s) ==
    /\ sess[s].pc \in {"idle", "raised"}
    /\ LET k == target
           e == cache[k]
       IN IF Live(e, k)
          THEN /\ sess' = [sess EXCEPT ![s] = IdleSess]
               /\ ev' = [kind |-> "hit", s |-> s, key |-> k, age |-> e.age, ret |-> e.val]
          ELSE /\ sess' = [sess EXCEPT ![s] = [IdleSess EXCEPT !.pc = "lock", !.top = k]]
               /\ ev' = [kind |-> "miss", s |-> s, key |-> k, age |-> AgeOf(e)]
    /\ UNCHANGED <<cache, lock, target>>

\* The body of an orchestrator calls its next cached leaf: the read without
\* the lock.
BodyRead(s) ==
    LET ss == sess[s] IN
    /\ ss.pc = "body"
    /\ ss.idx <= Len(LeafCalls(ss.top))
    /\ LET k == LeafCalls(ss.top)[ss.idx]
           e == cache[k]
           rq == [ss EXCEPT !.reqs = Append(ss.reqs, k)]
           nx == IF Live(e, k) THEN Consume(rq, k, FromCache(e))
                 ELSE [rq EXCEPT !.pc = "leaflock"]
       IN /\ sess' = [sess EXCEPT ![s] = nx]
          /\ lock' = Unlocked(lock, ss.top, nx.pc = "raised")
          /\ ev' = IF Live(e, k)
                   THEN [kind |-> "hit", s |-> s, key |-> k, age |-> e.age, ret |-> e.val]
                   ELSE [kind |-> "miss", s |-> s, key |-> k, age |-> AgeOf(e)]
    /\ UNCHANGED <<cache, target>>

\* A leaf call under its compute lock: the second read, and on a miss the
\* body and the write.
LockedLeaf(s, dom) ==
    LET ss == sess[s] IN
    /\ ss.pc \in {"lock", "leaflock"}
    /\ CurKey(ss) \in LeafKeys
    /\ LET k == CurKey(ss)
           e == cache[k]
       IN IF Live(e, k)
          THEN LET nx == Returned(ss, k, FromCache(e)) IN
               /\ cache' = cache
               /\ sess' = [sess EXCEPT ![s] = nx]
               /\ lock' = Unlocked(lock, ss.top, nx.pc = "raised")
               /\ ev' = [kind |-> "lockedhit", s |-> s, key |-> k, age |-> e.age, ret |-> e.val]
          ELSE \E ans \in Answers(k, dom) :
               LET val == LeafValue(k, ans)
                   nx == Returned(ss, k, [val |-> val, age |-> 0, fresh |-> TRUE, ans |-> ans])
               IN /\ cache' = IF Stored(k, val) THEN CacheWrite(cache, k, val) ELSE cache
                  /\ sess' = [sess EXCEPT ![s] = nx]
                  /\ lock' = Unlocked(lock, ss.top, nx.pc = "raised")
                  /\ ev' = [kind |-> "compute", s |-> s, key |-> k, age |-> AgeOf(e),
                            ans |-> ans, ret |-> val]
    /\ UNCHANGED target

\* An orchestrator call takes its compute lock: the second read, and on a
\* miss the body starts.
LockedOrch(s) ==
    LET ss == sess[s] IN
    /\ ss.pc = "lock"
    /\ ss.top \in OrchKeys
    /\ LockFree(lock, ss.top)
    /\ LET k == ss.top
           e == cache[k]
       IN IF Live(e, k)
          THEN /\ sess' = [sess EXCEPT ![s] = IdleSess]
               /\ lock' = lock
               /\ ev' = [kind |-> "lockedhit", s |-> s, key |-> k, age |-> e.age, ret |-> e.val]
          ELSE /\ sess' = [sess EXCEPT ![s] = [ss EXCEPT !.pc = "body", !.idx = 1]]
               /\ lock' = [lock EXCEPT ![k] = s]
               /\ ev' = [kind |-> "begin", s |-> s, key |-> k, age |-> AgeOf(e)]
    /\ UNCHANGED <<cache, target>>

\* The body of an orchestrator returns its rows; the result is written and
\* the lock released.  The timestamp of the result is this instant: the
\* entry's age is the time since.
Finish(s) ==
    LET ss == sess[s] IN
    /\ ss.pc = "body"
    /\ ss.idx > Len(LeafCalls(ss.top))
    /\ LET val == [rows |-> ss.rows, stale |-> ss.stale] IN
       /\ cache' = CacheWrite(cache, ss.top, val)
       /\ ev' = [kind |-> "finish", s |-> s, key |-> ss.top, age |-> 0, ret |-> val,
                 reqs |-> ss.reqs, got |-> ss.got]
    /\ lock' = [lock EXCEPT ![ss.top] = 0]
    /\ sess' = [sess EXCEPT ![s] = IdleSess]
    /\ UNCHANGED target

\* An entry d seconds later.  TTLCache drops an entry once its age reaches
\* the ttl: it can never be read again.
Aged(e, k, d) ==
    IF e.has /\ e.age + d < TTL(k) THEN [e EXCEPT !.age = e.age + d] ELSE NoEntry

\* The record of a pass d seconds later: the time since each of its reads,
\* up to cap.
Waited(ss, d, cap) ==
    [ss EXCEPT !.stale = [i \in DOMAIN ss.stale |->
        [ss.stale[i] EXCEPT !.elapsed = Min(ss.stale[i].elapsed + d, cap)]]]

\* d seconds pass.
Tick(d, cap) ==
    /\ cache' = [k \in Keys |-> Aged(cache[k], k, d)]
    /\ sess' = [s \in Sessions |-> Waited(sess[s], d, cap)]
    /\ ev' = [kind |-> "tick"]
    /\ UNCHANGED <<lock, target>>

(* Calls of one cached function, one after the other, while time passes.  *)
(* The function is any of the seven, with any configured argument tuple.  *)
Init == \E k \in Keys : InitFor(k)

Next ==
    \/ CallTop(1)
    \/ BodyRead(1)
    \/ LockedLeaf(1, TimeDom)
    \/ LockedOrch(1)
    \/ Finish(1)
    \/ Tick(TickStep, 0)

Spec == Init /\ [][Next]_vars

(* One fragment's calls on a fresh process, with the answers of ValueDom. *)
InitValues == \E k \in FragmentKeys : InitFor(k)

NextValues ==
    \/ CallTop(1)
    \/ BodyRead(1)
    \/ LockedLeaf(1, ValueDom)
    \/ LockedOrch(1)
    \/ Finish(1)

SpecValues == InitValues /\ [][NextValues]_vars

(* Sessions that call one orchestrator concurrently while time passes.    *)
InitConc == \E k \in OrchKeys : InitFor(k)

NextConc ==
    \/ \E s \in Sessions : CallTop(s)
    \/ \E s \in Sessions : BodyRead(s)
    \/ \E s \in Sessions : LockedLeaf(s, PassDom)
    \/ \E s \in Sessions : LockedOrch(s)
    \/ \E s \in Sessions : Finish(s)
    \/ Tick(TickStep, 0)

SpecConc == InitConc /\ [][NextConc]_vars

(* The calls of fetch_pool_data by live_pool_table, with the time each    *)
(* pass took recorded.                                                    *)
InitStale == InitFor(KPoolData)

NextStale ==
    \/ CallTop(1)
    \/ BodyRead(1)
    \/ LockedLeaf(1, PassDom)
    \/ LockedOrch(1)
    \/ Finish(1)
    \/ Tick(TickStep, ElapsedCap)

SpecStale == InitStale /\ [][NextStale]_vars

-----------------------------------------------------------------------------
(* Claims *)

\* C1: every cached function serves the stored value, without running its
\* body, exactly while an entry of age below its ttl exists (60 s, and 300 s
\* for get_fx_rates and get_sdai_apy); otherwise the call runs the body once
\* and replaces the entry, so no value is served past its ttl.
C1_CachedCallsObeyTTL ==
    LET ttl(k) == IF k[1] \in {"get_fx_rates", "get_sdai_apy"} THEN 300 ELSE 60 IN
    /\ \A k \in Keys : cache[k].has => cache[k].age < ttl(k)
    /\ ev.kind = "hit" =>
          /\ cache[ev.key].has
          /\ ev.age = cache[ev.key].age
          /\ ev.age >= 0 /\ ev.age < ttl(ev.key)
          /\ ev.ret = cache[ev.key].val
          /\ (ev.key = KFx /\ sess[ev.s].pc = "body") => sess[ev.s].fx_rates = cache[KFx].val
    /\ ev.kind \in {"miss", "begin"} => ev.age = -1 /\ ~cache[ev.key].has
    /\ ev.kind \in {"compute", "finish"} =>
          /\ ev.age \in {-1, 0}
          /\ cache[ev.key] = [has |-> TRUE, val |-> ev.ret, age |-> 0]
    /\ ev.kind # "lockedhit"
    /\ \A s \in Sessions : sess[s].pc \in {"lock", "leaflock"} => ~cache[CurKey(sess[s])].has

\* C1 witness: get_fx_rates serves an entry that is older than 60 s.
C1_Witness ==
    /\ ev.kind = "hit"
    /\ ev.key = KFx
    /\ ev.age >= 60
    /\ sess[ev.s].pc = "body"

\* C2: a failure of get_pool_price or get_bot_balance is stored like a
\* success, and while it is younger than 60 s every call returns it without
\* a network call.
C2_FailuresAreCached ==
    (ev.kind \in {"hit", "compute"} /\ ev.key[1] \in {"get_pool_price", "get_bot_balance"}) =>
        /\ ev.kind = "compute" =>
              /\ ev.age = -1
              /\ ~ev.ans.ok =>
                    /\ cache[ev.key].has
                    /\ cache[ev.key].age = 0
                    /\ cache[ev.key].val = [success |-> FALSE, error |-> ev.ans.error]
                    /\ ev.ret = cache[ev.key].val
        /\ (ev.kind = "hit" /\ ~cache[ev.key].val.success) =>
              /\ ev.ret = cache[ev.key].val
              /\ ev.age < 60

\* C2 witness: a call of get_pool_price is answered with the failure stored
\* 30 s or more before.
C2_Witness ==
    /\ ev.kind = "hit"
    /\ ev.key \in PoolKeys
    /\ ~ev.ret.success
    /\ ev.age >= 30

\* What a finished pass of fetch_pool_data got from its cached calls.
PassFx == ev.got[1].val
PassRatio == ev.got[2].val
PassData(i) == ev.got[i + 2].val
PoolPassDone == ev.kind = "finish" /\ ev.key = KPoolData
BotPassDone == ev.kind = "finish" /\ ev.key = KBotData

\* C3: whatever leaf calls fail, a pass of fetch_pool_data (fetch_bot_data)
\* raises nothing and returns one row per entry of POOLS (BOTS) in order;
\* the row of a failed item shows "ERR", and each row is the row of its own
\* item's result alone.
C3_PartialFailureIsolation ==
    /\ \A s \in Sessions : sess[s].pc # "raised"
    /\ PoolPassDone =>
          /\ Len(ev.ret.rows) = 4
          /\ \A i \in 1..4 :
                /\ ev.ret.rows[i].pair = POOLS[i].pair
                /\ ev.ret.rows[i].full_addr = POOLS[i].address
                /\ ~PassData(i).success <=> ev.ret.rows[i].price = [text |-> "ERR"]
                /\ ev.ret.rows[i] = PoolRow(POOLS[i], PassData(i), PassFx, PassRatio)
    /\ BotPassDone =>
          /\ Len(ev.ret.rows) = 2
          /\ \A j \in 1..2 :
                /\ ev.ret.rows[j].name = BOTS[j].name
                /\ ev.ret.rows[j].address = BOTS[j].address
                /\ ~ev.got[j].val.success <=> ev.ret.rows[j].balance = [text |-> "ERR"]
                /\ ev.ret.rows[j] = BotRow(BOTS[j], ev.got[j].val)

\* C3 witness: a pass in which the FX fetch and the second pool failed, and
\* the first and third pool did not.
C3_Witness ==
    /\ PoolPassDone
    /\ PassFx = EmptyDict
    /\ ~PassData(2).success
    /\ PassData(1).success /\ PassData(3).success
    /\ ev.ret.rows[2].price = Err
    /\ ev.ret.rows[1].price # Err /\ ev.ret.rows[3].price # Err

\* The price and the benchmark of row i of a finished pass, from the pass's
\* inputs.
RowP(i) == IF i = 4 THEN RMul(PassData(i).price, PassRatio) ELSE PassData(i).price
RowB(i) == DictGet(PassFx, POOLS[i].fx_pair)

\* C4: for a price P > 0 and a benchmark B that is present and not zero,
\* the row shows (P - B) / B * 100 with class "positive" iff |dev| < 0.5,
\* "negative" iff |dev| > 2, "neutral" otherwise: exactly 0.5 and exactly 2
\* are "neutral".
C4_DeviationClasses ==
    PoolPassDone =>
        \A i \in 1..4 :
            (PassData(i).success /\ RowP(i)[1] > 0 /\ IsNum(RowB(i)) /\ RowB(i)[1] # 0) =>
                LET P == RowP(i)
                    B == RowB(i)
                    \* |P - B| / |B| = num / den
                    num == Abs(P[1] * B[2] - B[1] * P[2])
                    den == P[2] * Abs(B[1])
                    d == ev.ret.rows[i].dev
                IN /\ DOMAIN d = {"class", "sign", "pct2"}
                   /\ d.class \in {"positive", "neutral", "negative"}
                   /\ d.class = "positive" <=> 200 * num < den
                   /\ d.class = "negative" <=> 100 * num > 2 * den
                   /\ d.class = "neutral" <=> (200 * num >= den /\ 100 * num <= 2 * den)
                   /\ d.pct2 = Fmt(<<100 * num, den>>, 2)
                   /\ d.sign = "-" <=> RLt(P, B)

\* C4 witness: a pass with one pool exactly 0.5% and one exactly 2% off its
\* benchmark, both "neutral".
C4_Witness ==
    /\ PoolPassDone
    /\ PassData(1).success /\ RowP(1) = <<1, 1>> /\ RowB(1) = <<200, 201>>
    /\ ev.ret.rows[1].dev = [class |-> "neutral", sign |-> "+", pct2 |-> 50]
    /\ PassData(4).success /\ RowP(4) = <<51, 50>> /\ RowB(4) = <<1, 1>>
    /\ ev.ret.rows[4].dev = [class |-> "neutral", sign |-> "+", pct2 |-> 200]

\* C5: when the benchmark of a priced pool is missing or None, or the price
\* is not above 0, the row's deviation is the placeholder, without number or
\* class, and nothing is divided by the missing benchmark.
C5_UnavailableDeviation ==
    /\ \A s \in Sessions : sess[s].pc # "raised"
    /\ PoolPassDone =>
          \A i \in 1..4 :
              (PassData(i).success /\ (~IsNum(RowB(i)) \/ RowP(i)[1] <= 0)) =>
                  /\ ev.ret.rows[i].dev = [text |-> "-"]
                  /\ DOMAIN ev.ret.rows[i].dev \cap {"class", "pct2", "sign"} = {}

\* C5 witness: a pass without FX table whose first pool has a price above 0
\* and whose second pool has price 0.
C5_Witness ==
    /\ PoolPassDone
    /\ PassFx = EmptyDict
    /\ PassData(1).success /\ RowP(1)[1] > 0 /\ ev.ret.rows[1].dev = Dash
    /\ PassData(2).success /\ RowP(2)[1] = 0 /\ ev.ret.rows[2].dev = Dash

FxComputed == ev.kind = "compute" /\ ev.key = KFx
FxPresent(t, k) == k \in DOMAIN t /\ IsNum(t[k])

\* C6: a table of get_fx_rates holds BRL/USD only with USD/BRL, GBP/USD only
\* with USD/GBP, EUR/CHF only with USD/CHF and USD/EUR, as 1/(USD/BRL),
\* 1/(USD/GBP) and (USD/CHF)/(USD/EUR); after a failed call or a status
\* other than 200 it holds no derived rate.
C6_FxCrossRates ==
    FxComputed =>
        LET t == ev.ret IN
        /\ "BRL/USD" \in DOMAIN t =>
              /\ FxPresent(t, "USD/BRL")
              /\ IsNum(t["BRL/USD"])
              /\ t["BRL/USD"][1] * t["USD/BRL"][1] = t["BRL/USD"][2] * t["USD/BRL"][2]
        /\ "GBP/USD" \in DOMAIN t =>
              /\ FxPresent(t, "USD/GBP")
              /\ IsNum(t["GBP/USD"])
              /\ t["GBP/USD"][1] * t["USD/GBP"][1] = t["GBP/USD"][2] * t["USD/GBP"][2]
        /\ "EUR/CHF" \in DOMAIN t =>
              /\ FxPresent(t, "USD/CHF") /\ FxPresent(t, "USD/EUR")
              /\ IsNum(t["EUR/CHF"])
              /\ t["EUR/CHF"][1] * t["USD/EUR"][1] * t["USD/CHF"][2]
                    = t["EUR/CHF"][2] * t["USD/EUR"][2] * t["USD/CHF"][1]
        /\ ev.ans.kind # "ok" => DOMAIN t \cap {"BRL/USD", "GBP/USD", "EUR/CHF"} = {}

\* C6 witness: a table with EUR/CHF = 0.95/0.9 and GBP/USD = 1/0.8 and, for
\* want of USD/BRL, without BRL/USD.
C6_Witness ==
    /\ FxComputed
    /\ "BRL/USD" \notin DOMAIN ev.ret
    /\ "EUR/CHF" \in DOMAIN ev.ret /\ ev.ret["EUR/CHF"] = <<19, 18>>
    /\ "GBP/USD" \in DOMAIN ev.ret /\ ev.ret["GBP/USD"] = <<5, 4>>

\* C7: when the vault call fails get_sdai_rate returns 1.0 and the pass goes
\* on; the price of the pool flagged sdai_adjust is its decoded price times
\* the ratio, the decoded price itself after a failed vault call; the price
\* of every other pool is its decoded price.
C7_YieldAdjustment ==
    /\ (ev.kind = "compute" /\ ev.key = KSdaiRate) =>
          /\ ev.ret = IF ev.ans.ok THEN ev.ans.assets ELSE <<1, 1>>
          /\ target = KPoolData => sess[ev.s].pc = "body" /\ sess[ev.s].sdai_rate = ev.ret
    /\ PoolPassDone =>
          LET r == IF ev.got[2].fresh /\ ~ev.got[2].ans.ok THEN <<1, 1>> ELSE PassRatio IN
          \A i \in 1..4 :
              PassData(i).success =>
                  ev.ret.rows[i].price =
                      [fmt4 |-> Fmt(IF "sdai_adjust" \in DOMAIN POOLS[i]
                                    THEN RMul(PassData(i).price, r)
                                    ELSE PassData(i).price, 4)]

\* C7 witness: a pass whose vault call failed and whose flagged pool, of
\* decoded price 1, is priced 1.0000.
C7_Witness ==
    /\ PoolPassDone
    /\ ev.got[2].fresh /\ ~ev.got[2].ans.ok
    /\ PassData(4).success /\ PassData(4).price = <<1, 1>>
    /\ ev.ret.rows[4].price = [fmt4 |-> 10000]

\* The cached calls of one pass of fetch_pool_data.
PoolPassCalls ==
    << <<"get_fx_rates", <<>>>>, <<"get_sdai_rate", <<>>>>,
       <<"get_pool_price", <<"0x576bf065cbc15cb2d61affb156118fcff01a8238">>>>,
       <<"get_pool_price", <<"0x1bb53efa5523c80b598b561e266dfdc938f80e4f">>>>,
       <<"get_pool_price", <<"0x9fc285501a38d734e7b42147445d303cf8f7946b">>>>,
       <<"get_pool_price", <<"0x22eb73322b6334ccf07fc2f9f22690a012d22797">>>> >>

\* C9: a pass of fetch_pool_data asks for the FX table, then the yield
\* ratio, then each pool's price in configuration order, each exactly once,
\* failed or not, and builds every row from that one table and ratio.
C9_OnePassAsksOnce ==
    /\ \A s \in Sessions :
          (sess[s].top = KPoolData /\ sess[s].pc \in {"body", "leaflock"}) =>
              /\ Len(sess[s].reqs) <= 6
              /\ sess[s].reqs = SubSeq(PoolPassCalls, 1, Len(sess[s].reqs))
              /\ Len(sess[s].rows) = IF Len(sess[s].got) > 2 THEN Len(sess[s].got) - 2 ELSE 0
              /\ Len(sess[s].got) >= 1 => sess[s].fx_rates = sess[s].got[1].val
              /\ Len(sess[s].got) >= 2 => sess[s].sdai_rate = sess[s].got[2].val
    /\ PoolPassDone =>
          /\ ev.reqs = PoolPassCalls
          /\ Len(ev.got) = 6
          /\ \A i \in 1..4 :
                PassData(i).success =>
                    /\ ev.ret.rows[i].fx_rate =
                          IF Truthy(DictGet(PassFx, POOLS[i].fx_pair))
                          THEN [fmt4 |-> Fmt(PassFx[POOLS[i].fx_pair], 4)] ELSE Dash
                    /\ ev.ret.rows[i].price = [fmt4 |-> Fmt(RowP(i), 4)]

\* C9 witness: a finished pass whose first pool failed.
C9_Witness ==
    /\ PoolPassDone
    /\ ~PassData(1).success
    /\ PassData(2).success
    /\ ev.reqs = PoolPassCalls

Computing(k) == {s \in Sessions : sess[s].top = k /\ sess[s].pc \in {"body", "leaflock"}}
Waiting(k) == {s \in Sessions : sess[s].top = k /\ sess[s].pc = "lock"}

PoolDataReturned == ev.kind \in {"hit", "lockedhit", "finish"} /\ ev.key = KPoolData

\* The seconds between the leaf call that obtained input j of the returned
\* rows (1: the FX table, 3..6: the pools' prices) and the return: the age
\* of the leaf's entry when the pass read it, the time the pass took from
\* there to its end (counted up to ElapsedCap), the age of the rows.
BeforePass(j) == ev.ret.stale[j].req_age
DuringPass(j) == ev.ret.stale[j].elapsed
SincePass == ev.age

\* C10 as stated: every returned price is at most 120 s old and every
\* returned benchmark at most 360 s.
C10_AsStated ==
    PoolDataReturned =>
        /\ \A j \in 3..6 : BeforePass(j) + DuringPass(j) + SincePass <= 120
        /\ BeforePass(1) + DuringPass(1) + SincePass <= 360

\* C10, amended: apart from the time the pass itself took after the read,
\* every returned price is less than 120 s old (less than 60 s when the pass
\* read it, returned less than 60 s after the pass) and every returned
\* benchmark less than 360 s (300 s and 60 s).
C10_StalenessBound ==
    PoolDataReturned =>
        /\ SincePass >= 0 /\ SincePass < 60
        /\ \A j \in 3..6 :
              /\ BeforePass(j) >= 0 /\ BeforePass(j) < 60
              /\ BeforePass(j) + SincePass < 120
        /\ BeforePass(1) >= 0 /\ BeforePass(1) < 300
        /\ BeforePass(1) + SincePass < 360

\* C10 witness: rows are returned whose benchmark is 300 s old or older
\* although the pass that built them took no time.
C10_Witness ==
    /\ PoolDataReturned
    /\ \A j \in 1..6 : DuringPass(j) = 0
    /\ BeforePass(1) + SincePass >= 300

====
